---- MODULE Spec2Model ----
(***************************************************************************)
(* Commit Message Classifier (src/backend/main.py).                        *)
(*                                                                         *)
(* The service is stateless: the state of the model is the request in     *)
(* flight and the response its handler produced, both gone once the        *)
(* response is sent.  Messages                                             *)
(* are TLA+ strings, that is sequences of characters; every regular        *)
(* expression and string method of the source is modelled character by     *)
(* character.  Confidences are kept in hundredths (0.95 is 95), the        *)
(* floating-point values of the source being 0.5, 0.7, 0.8, 0.9 and 0.95,  *)
(* all of them distinct and ordered as their hundredths are.  The          *)
(* timestamp of a result (datetime.now()) is left out: nothing reads it.   *)
(***************************************************************************)
EXTENDS Integers, Sequences, FiniteSets, TLC

VARIABLES request, response

vars == <<request, response>>

(***************************************************************************)
(* Characters and the string methods of Python the source relies on.       *)
(***************************************************************************)

\* The i-th character of s, as a string of length one.
Char(s, i) == SubSeq(s, i, i)

\* The characters str.isspace() and the class \s accept, among those a TLA+
\* string can hold.
WhiteSpace == {" ", "\t", "\n", "\r", "\f"}

IsSpace(c) == c \in WhiteSpace

\* str.lower() on one character: the ASCII upper-case letters.
UpperToLower ==
    [A |-> "a", B |-> "b", C |-> "c", D |-> "d", E |-> "e", F |-> "f",
     G |-> "g", H |-> "h", I |-> "i", J |-> "j", K |-> "k", L |-> "l",
     M |-> "m", N |-> "n", O |-> "o", P |-> "p", Q |-> "q", R |-> "r",
     S |-> "s", T |-> "t", U |-> "u", V |-> "v", W |-> "w", X |-> "x",
     Y |-> "y", Z |-> "z"]

\* str.isupper() on one character.
IsUpper(c) == c \in DOMAIN UpperToLower

LowerChar(c) == IF IsUpper(c) THEN UpperToLower[c] ELSE c

RECURSIVE Lower(_)
\* str.lower(): character by character, the string being halved to keep the
\* evaluation shallow.
Lower(s) ==
    IF s = "" THEN ""
    ELSE IF Len(s) = 1 THEN LowerChar(s)
    ELSE Lower(SubSeq(s, 1, Len(s) \div 2))
             \o Lower(SubSeq(s, Len(s) \div 2 + 1, Len(s)))

RECURSIVE LStrip(_)
\* Removes the leading white space: str.lstrip(), and a greedy \s* at the
\* start of s.
LStrip(s) ==
    IF s # "" /\ IsSpace(Char(s, 1)) THEN LStrip(SubSeq(s, 2, Len(s))) ELSE s

RECURSIVE RStrip(_)
RStrip(s) ==
    IF s # "" /\ IsSpace(Char(s, Len(s)))
    THEN RStrip(SubSeq(s, 1, Len(s) - 1))
    ELSE s

\* str.strip()
Strip(s) == RStrip(LStrip(s))

LeastOf(S) == CHOOSE i \in S : \A j \in S : i <= j

\* The index of the first occurrence of character c in s at or after
\* position from, 0 when there is none.
Find(s, c, from) ==
    LET at == {i \in from..Len(s) : Char(s, i) = c}
    IN IF at = {} THEN 0 ELSE LeastOf(at)

\* kw in s
Contains(s, kw) ==
    \E i \in 1..(Len(s) - Len(kw) + 1) : SubSeq(s, i, i + Len(kw) - 1) = kw

\* s.startswith(p)
StartsWith(s, p) == Len(s) >= Len(p) /\ SubSeq(s, 1, Len(p)) = p

RECURSIVE WordEnd(_, _)
\* The index of the last character of the run of non-space characters that
\* starts at position i of s.
WordEnd(s, i) ==
    IF i < Len(s) /\ ~IsSpace(Char(s, i + 1)) THEN WordEnd(s, i + 1) ELSE i

\* s.split(): only its emptiness and its first element are used.
SplitIsEmpty(s) == LStrip(s) = ""

SplitFirst(s) == LET t == LStrip(s) IN SubSeq(t, 1, WordEnd(t, 1))

(***************************************************************************)
(* The category table.                                                     *)
(***************************************************************************)

\* The keys of COMMIT_TYPES in declaration order, the order .items() iterates
\* in.
TypeOrder ==
    <<"feat", "fix", "docs", "style", "refactor", "perf", "test", "build",
      "ci", "chore", "revert">>

\* 'pattern' holds the literal <type> of r'^<type>(\([^)]+\))?:\s*.+': the
\* eleven patterns differ in nothing else (see PatternMatch).
COMMIT_TYPES ==
    [feat     |-> [pattern |-> "feat",
                   keywords |-> <<"add", "new", "implement", "create",
                                  "introduce">>],
     fix      |-> [pattern |-> "fix",
                   keywords |-> <<"fix", "bug", "resolve", "correct",
                                  "repair", "patch">>],
     docs     |-> [pattern |-> "docs",
                   keywords |-> <<"doc", "documentation", "readme",
                                  "comment", "guide">>],
     style    |-> [pattern |-> "style",
                   keywords |-> <<"style", "format", "indent", "whitespace",
                                  "lint">>],
     refactor |-> [pattern |-> "refactor",
                   keywords |-> <<"refactor", "restructure", "optimize",
                                  "improve", "clean">>],
     perf     |-> [pattern |-> "perf",
                   keywords |-> <<"performance", "perf", "speed", "optimize",
                                  "faster">>],
     test     |-> [pattern |-> "test",
                   keywords |-> <<"test", "testing", "spec", "coverage",
                                  "unit", "integration">>],
     build    |-> [pattern |-> "build",
                   keywords |-> <<"build", "dependency", "deps", "package",
                                  "npm", "pip">>],
     ci       |-> [pattern |-> "ci",
                   keywords |-> <<"ci", "cd", "pipeline", "jenkins",
                                  "travis", "github actions">>],
     chore    |-> [pattern |-> "chore",
                   keywords |-> <<"chore", "update", "upgrade",
                                  "maintenance", "config">>],
     revert   |-> [pattern |-> "revert",
                   keywords |-> <<"revert", "undo", "rollback">>]]

(***************************************************************************)
(* The regular expressions.                                                *)
(***************************************************************************)

\* \s*.+ right after the colon at position p of s: some run of white space,
\* then at least one character that is not a newline (the rest of .+ and of
\* s is then free, re.match anchoring the start only).
RestMatches(s, p) ==
    \E q \in (p + 1)..Len(s) :
        /\ \A k \in (p + 1)..(q - 1) : IsSpace(Char(s, k))
        /\ Char(s, q) # "\n"

\* The rest of the pattern after the optional group, which ends at position
\* e of s (e is the end of the literal when there is no group): a colon,
\* then \s*.+
ColonAndRest(s, e) ==
    /\ e + 1 <= Len(s)
    /\ Char(s, e + 1) = ":"
    /\ RestMatches(s, e + 1)

\* (\([^)]+\)) at position o of s, and the rest of the pattern after it; c is
\* the position of the first ")" after the "(", 0 when there is none.
GroupAndRest(s, o, c) ==
    /\ o <= Len(s)
    /\ Char(s, o) = "("
    /\ c >= o + 2
    /\ ColonAndRest(s, c)

\* re.match(r'^<lit>(\([^)]+\))?:\s*.+', s, re.IGNORECASE) finds a match:
\* with the group, or without it.
PatternMatch(lit, s) ==
    /\ Len(s) >= Len(lit)
    /\ Lower(SubSeq(s, 1, Len(lit))) = lit
    /\ \/ ColonAndRest(s, Len(lit))
       \/ GroupAndRest(s, Len(lit) + 1, Find(s, ")", Len(lit) + 2))

\* The optional values of Python: None, or a string.
None == [some |-> FALSE, value |-> ""]

Some(v) == [some |-> TRUE, value |-> v]

\* re.search(r'\(([^)]+)\)', s) matches at position i: a "(", one or more
\* characters other than ")", and a ")".
GroupAt(s, i) == Char(s, i) = "(" /\ Find(s, ")", i + 1) >= i + 2

\* group(1) of the match at the least position of at, None when at is empty.
FirstGroup(s, at) ==
    IF at = {} THEN None
    ELSE Some(SubSeq(s, LeastOf(at) + 1, Find(s, ")", LeastOf(at) + 1) - 1))

\* extract_scope as it would be if it read the scope of the prefix only: the
\* group has to open before the first colon.
extract_scope_of_prefix(message) ==
    FirstGroup(message,
               {i \in 1..Find(message, ":", 1) : GroupAt(message, i)})

\* re.search scans from the left and stops at the first position that
\* matches.
extract_scope(message) ==
    FirstGroup(message, {i \in 1..Len(message) : GroupAt(message, i)})

\* re.sub(r'^[^:]+:\s*', '', s) when the first colon of s is at position p
\* (0: no colon): one or more characters other than ":", the colon and the
\* white space after it are removed; s is returned as it is when it has no
\* colon or starts with one.
StripPrefixAt(s, p) ==
    IF p >= 2 THEN LStrip(SubSeq(s, p + 1, Len(s))) ELSE s

StripPrefix(s) == StripPrefixAt(s, Find(s, ":", 1))

(***************************************************************************)
(* The classifier.                                                         *)
(***************************************************************************)

\* sum(1 for kw in keywords if kw in message_lower)
keyword_matches(keywords, message_lower) ==
    Cardinality({i \in 1..Len(keywords) : Contains(message_lower, keywords[i])})

Min(a, b) == IF a <= b THEN a ELSE b

\* max without its second argument: the floor of 0.5 is lost.
MaxWithoutFloor(a, b) == a

Max(a, b) == IF a >= b THEN a ELSE b

\* The confidence without the cap of 0.9.
KeywordConfidenceUncapped(keyword_count) ==
    IF keyword_count > 0 THEN 60 + keyword_count * 10 ELSE 50

\* The last lines of calculate_confidence: the confidence of keyword_count
\* keywords.
KeywordConfidence(keyword_count) ==
    IF keyword_count > 0 THEN Min(60 + keyword_count * 10, 90) ELSE 50

calculate_confidence(message, commit_type) ==
    IF PatternMatch(COMMIT_TYPES[commit_type].pattern, message) THEN 95
    ELSE KeywordConfidence(
             keyword_matches(COMMIT_TYPES[commit_type].keywords,
                             Lower(message)))

\* What a call yields: a value, or a raised exception.
Return(v) == [ok |-> TRUE, value |-> v]

Raise(class, status_code, detail) ==
    [ok |-> FALSE,
     exc |-> [class |-> class, status_code |-> status_code, detail |-> detail]]

\* The first loop of classify_commit: the indices of TypeOrder whose pattern
\* matches; the loop returns at the least of them.
ConventionalHits(message) ==
    {i \in 1..Len(TypeOrder) :
        PatternMatch(COMMIT_TYPES[TypeOrder[i]].pattern, message)}

\* The body of the second loop with >= for >: among equals the last category
\* wins.
BetterOrEqualMatch(best, commit_type, keyword_count, confidence) ==
    IF keyword_count > 0 /\ confidence >= best.best_confidence
    THEN [best_match |-> commit_type, best_confidence |-> confidence]
    ELSE best

\* The body of the second loop of classify_commit: the best match and its
\* confidence after commit_type, which has keyword_count keywords in the
\* message and for which calculate_confidence gives confidence.
BetterMatch(best, commit_type, keyword_count, confidence) ==
    IF keyword_count > 0 /\ confidence > best.best_confidence
    THEN [best_match |-> commit_type, best_confidence |-> confidence]
    ELSE best

RECURSIVE KeywordLoop(_, _, _, _)
\* The second loop of classify_commit from index i on, best being the best
\* match and the best confidence found so far.
KeywordLoop(message, message_lower, i, best) ==
    IF i > Len(TypeOrder) THEN best
    ELSE KeywordLoop(message, message_lower, i + 1,
             BetterMatch(best, TypeOrder[i],
                 keyword_matches(COMMIT_TYPES[TypeOrder[i]].keywords,
                                 message_lower),
                 calculate_confidence(message, TypeOrder[i])))

\* The return of the first loop, hits being the indices that match.
ConventionalResult(message, hits) ==
    Return([type |-> TypeOrder[LeastOf(hits)],
            scope |-> extract_scope(message),
            description |-> StripPrefix(message),
            confidence |-> 95])

\* The return at the end of classify_commit.
KeywordResult(message, best) ==
    Return([type |-> best.best_match,
            scope |-> None,
            description |-> message,
            confidence |-> Max(best.best_confidence, 50)])

\* The best match the second loop starts with.
NoMatchYet == [best_match |-> "chore", best_confidence |-> 0]

\* The two passes in the other order: the conventional prefix decides only
\* when the message has no keyword.
KeywordsFirst(message, hits, best) ==
    IF message = "" THEN Raise("HTTPException", 400, "Empty commit message")
    ELSE IF best.best_confidence > 0 THEN KeywordResult(message, best)
    ELSE IF hits # {} THEN ConventionalResult(message, hits)
    ELSE KeywordResult(message, best)

\* classify_commit after message.strip(): hits is what the first loop finds
\* and best what the second one would.
ConventionalFirst(message, hits, best) ==
    IF message = "" THEN Raise("HTTPException", 400, "Empty commit message")
    ELSE IF hits # {} THEN ConventionalResult(message, hits)
    ELSE KeywordResult(message, best)

\* The message stripped, with what the two loops find in it.
Passes(message) ==
    ConventionalFirst(message, ConventionalHits(message),
                      KeywordLoop(message, Lower(message), 1, NoMatchYet))

classify_commit(raw) == Passes(Strip(raw))

(***************************************************************************)
(* The suggestions.                                                        *)
(***************************************************************************)

\* f"Consider using conventional format: {commit_type}: {description}": the
\* text with the two values it was formatted with.
ReformatSuggestion(commit_type, description) ==
    [text |-> "Consider using conventional format: ",
     type |-> commit_type,
     description |-> description]

FixedSuggestion(text) == [text |-> text, type |-> "", description |-> ""]

TooShortSuggestion ==
    FixedSuggestion("Commit message is too short. Add more details.")

TooLongSuggestion ==
    FixedSuggestion("Commit message is long. Consider keeping summary under 72 characters.")

ImperativeSuggestion ==
    FixedSuggestion("Use imperative mood (e.g., 'add' instead of 'added')")

LowercaseSuggestion ==
    FixedSuggestion("Start description with lowercase letter")

past_tense_indicators ==
    <<"added", "fixed", "updated", "changed", "removed", "created">>

\* The lengths the two length checks of generate_suggestions compare with.
ShortLength == 10

LongLength == 100

\* The checks chained with elif: only the first that applies appends.
AppendIfFirst(cond, list, x) ==
    IF cond /\ list = <<>> THEN Append(list, x) ELSE list

\* list.append under a condition
AppendIf(cond, list, x) == IF cond THEN Append(list, x) ELSE list

\* classification['description'].split()[0].lower() if
\* classification['description'] else ''
FirstWord(desc) == IF desc # "" THEN Lower(SplitFirst(desc)) ELSE ""

\* any(first_word.startswith(ind) for ind in past_tense_indicators)
IsPastTense(first_word) ==
    \E k \in 1..Len(past_tense_indicators) :
        StartsWith(first_word, past_tense_indicators[k])

\* The five checks in their order, each appending to the list of the ones
\* before it.
Suggestions(message, commit_type, desc) ==
    AppendIf(desc # "" /\ IsUpper(Char(desc, 1)),
        AppendIf(IsPastTense(FirstWord(desc)),
            AppendIf(Len(message) > LongLength,
                AppendIf(Len(message) < ShortLength,
                    AppendIf(~PatternMatch(COMMIT_TYPES[commit_type].pattern,
                                           message),
                             <<>>,
                             ReformatSuggestion(commit_type, desc)),
                    TooShortSuggestion),
                TooLongSuggestion),
            ImperativeSuggestion),
        LowercaseSuggestion)

\* .split()[0] raises IndexError on a description that is white space only.
generate_suggestions(message, classification) ==
    IF classification.description # ""
           /\ SplitIsEmpty(classification.description)
    THEN Raise("IndexError", 0, "list index out of range")
    ELSE Return(Suggestions(message, classification.type,
                            classification.description))

(***************************************************************************)
(* The bodies of the two handlers.                                         *)
(***************************************************************************)

\* str(e): the rendering belongs to the exception's class; it is kept as
\* the content it is rendered from.
StrOf(exc) == exc

\* The fields of a result, timestamp apart.
ResultOf(msg, classification, suggestions) ==
    IF ~suggestions.ok THEN suggestions
    ELSE Return([message |-> msg,
                 type |-> classification.type,
                 scope |-> classification.scope,
                 description |-> classification.description,
                 confidence |-> classification.confidence,
                 suggestions |-> suggestions.value])

\* generate_suggestions on the message as it was submitted, after
\* classify_commit has yielded classification.
Suggested(msg, classification) ==
    IF ~classification.ok THEN classification
    ELSE ResultOf(msg, classification.value,
                  generate_suggestions(msg, classification.value))

\* The body of the try block both endpoints share.
Classified(msg) == Suggested(msg, classify_commit(msg))

\* The two branches of the try of classify_batch, r being what its body
\* yields.
ItemOf(msg, r) ==
    IF r.ok THEN r.value ELSE [message |-> msg, error |-> StrOf(r.exc)]

\* One iteration of the loop of classify_batch.
BatchItem(msg) == ItemOf(msg, Classified(msg))

RECURSIVE BatchLoopAborting(_, _)
\* The loop without its try: the first message that fails ends it.
BatchLoopAborting(messages, results) ==
    IF messages = <<>> THEN results
    ELSE IF ~classify_commit(Head(messages)).ok THEN results
    ELSE BatchLoopAborting(Tail(messages),
                           Append(results, BatchItem(Head(messages))))

RECURSIVE BatchLoop(_, _)
\* The loop of classify_batch over messages, results being the list so far.
BatchLoop(messages, results) ==
    IF messages = <<>> THEN results
    ELSE BatchLoop(Tail(messages), Append(results, BatchItem(Head(messages))))

(***************************************************************************)
(* The requests the model submits.                                         *)
(***************************************************************************)

\* The longest run of spaces put before and after a message.
MaxPad == 1

\* The most phrases a message body is made of.
MaxPhrases == 2

\* The longest batch.
MaxBatch == 2

RECURSIVE Spaces(_)
Spaces(k) == IF k = 0 THEN "" ELSE " " \o Spaces(k - 1)

Pads == {Spaces(k) : k \in 0..MaxPad}

\* How a message starts: nothing, a conventional prefix (lower and mixed
\* case, with a scope, with a colon inside the scope, followed by a space, a
\* tab, a newline or nothing), or a prefix whose scope is empty.
Heads == {"", "feat: ", "Fix(api):", "docs(a:b):\t", "test:\n", "feat(): "}

\* 93 characters without any keyword.
Filler ==
    "keep very large payloads on disk rather than in memory while the upload is still streaming in"

Phrases ==
    {"Added new login() (ui)", "fix bug", "documentation guide",
     "unit testing coverage", Filler}

RECURSIVE Bodies(_)
\* The phrases joined by single spaces, at most n of them.
Bodies(n) ==
    IF n = 0 THEN {""}
    ELSE LET shorter == Bodies(n - 1)
         IN shorter \cup
            {IF b = "" THEN p ELSE b \o " " \o p : b \in shorter, p \in Phrases}

Messages ==
    {lead \o head \o body \o trail :
        lead \in Pads, head \in Heads, body \in Bodies(MaxPhrases),
        trail \in Pads}

\* The messages batches are made of: empty ones, two of test_api.py, and some
\* that are padded or carry keywords only.
BatchMessages ==
    {"", "  ", "feat: add login feature", "fixed the bug in payment module",
     " Fix(api): Added (ui)"}

RECURSIVE Batches(_)
Batches(n) ==
    IF n = 0 THEN {<<>>}
    ELSE LET shorter == Batches(n - 1)
         IN shorter \cup {Append(b, m) : b \in shorter, m \in BatchMessages}

(***************************************************************************)
(* The endpoints.                                                          *)
(***************************************************************************)

\* No request is being handled; no response has been produced yet.
NoRequest == [endpoint |-> "none"]

NoResponse == [status_code |-> 0]

Init ==
    /\ request = NoRequest
    /\ response = NoResponse

\* A client posts a message to /classify.
PostClassify(m) ==
    /\ request = NoRequest
    /\ request' = [endpoint |-> "/classify", message |-> m]
    /\ UNCHANGED response

\* A client posts a list of messages to /classify/batch.
PostBatch(ms) ==
    /\ request = NoRequest
    /\ request' = [endpoint |-> "/classify/batch", messages |-> ms]
    /\ UNCHANGED response

\* The answer of /classify, r being what the try block yields: any
\* exception, the HTTPException of classify_commit included, is caught and
\* raised again as a 500.
AnswerOf(r) ==
    IF r.ok THEN [status_code |-> 200, body |-> r.value]
    ELSE [status_code |-> 500, body |-> [detail |-> StrOf(r.exc)]]

\* POST /classify
classify_message ==
    /\ request.endpoint = "/classify"
    /\ response = NoResponse
    /\ response' = AnswerOf(Classified(request.message))
    /\ UNCHANGED request

\* return {'results': results, 'total': len(results)}
BatchAnswerOf(results) ==
    [status_code |-> 200,
     body |-> [results |-> results, total |-> Len(results)]]

\* POST /classify/batch
classify_batch ==
    /\ request.endpoint = "/classify/batch"
    /\ response = NoResponse
    /\ response' = BatchAnswerOf(BatchLoop(request.messages, <<>>))
    /\ UNCHANGED request

\* The response goes back to the client; the server keeps nothing of the
\* request.
SendResponse ==
    /\ response # NoResponse
    /\ request' = NoRequest
    /\ response' = NoResponse

Next ==
    \/ \E m \in Messages : PostClassify(m)
    \/ \E ms \in Batches(MaxBatch) : PostBatch(ms)
    \/ classify_message
    \/ classify_batch
    \/ SendResponse

Spec == Init /\ [][Next]_vars

(***************************************************************************)
(* What the properties below speak about.                                  *)
(***************************************************************************)

\* The server has answered a request to the endpoint.
Answered(endpoint) == request.endpoint = endpoint /\ response # NoResponse

\* The classification results of the answer, each carrying the message it
\* was submitted with: the body of a 200 answer of /classify, and the items
\* of a batch answer that are not errors.
Results ==
    IF Answered("/classify") THEN
        IF response.status_code = 200 THEN {response.body} ELSE {}
    ELSE IF Answered("/classify/batch") THEN
        {response.body.results[i] : i \in
            {k \in 1..Len(response.body.results) :
                "error" \notin DOMAIN response.body.results[k]}}
    ELSE {}

Types == {TypeOrder[i] : i \in 1..Len(TypeOrder)}

\* The categories whose conventional pattern the trimmed message matches.
ConventionalTypes(raw) ==
    {t \in Types : PatternMatch(COMMIT_TYPES[t].pattern, Strip(raw))}

\* Every category paired with the number of its keywords in the lower-cased
\* trimmed message.
KeywordCountsIn(message_lower) ==
    {<<t, keyword_matches(COMMIT_TYPES[t].keywords, message_lower)>> :
        t \in Types}

KeywordCounts(raw) == KeywordCountsIn(Lower(Strip(raw)))

\* The number category t is paired with in counts.
CountOf(counts, t) == (CHOOSE p \in counts : p[1] = t)[2]

IndexIn(t) == CHOOSE i \in 1..Len(TypeOrder) : TypeOrder[i] = t

Has(suggestions, x) == \E i \in 1..Len(suggestions) : suggestions[i] = x

HasReformat(suggestions) ==
    \E i \in 1..Len(suggestions) :
        suggestions[i].text = "Consider using conventional format: "

\* C1: a message that, trimmed, matches the conventional pattern of a
\* category is classified as that category, with confidence 0.95 and as
\* description the text after its first colon without the white space around
\* it, whatever keywords it contains.
C1_ConventionalTakesPrecedence ==
    Answered("/classify") =>
        \A t \in ConventionalTypes(request.message) :
            LET m == Strip(request.message)
                colon == Find(m, ":", 1)
            IN /\ response.status_code = 200
               /\ response.body.type = t
               /\ response.body.confidence = 95
               /\ response.body.description
                      = Strip(SubSeq(m, colon + 1, Len(m)))

\* C1 happens: a conventional message that carries keywords of another
\* category has been classified by its prefix.
C1_Witness ==
    /\ Answered("/classify")
    /\ \E t \in ConventionalTypes(request.message) :
          /\ response.status_code = 200
          /\ response.body.type = t
          /\ \E p \in KeywordCounts(request.message) :
                p[2] > CountOf(KeywordCounts(request.message), t)

\* C2: a /classify request whose message is empty once trimmed is answered
\* with a client error (4xx), without a classification.
C2_EmptyIsClientError ==
    (Answered("/classify") /\ Strip(request.message) = "") =>
        /\ response.status_code \in 400..499
        /\ "type" \notin DOMAIN response.body

\* C3: a message that is not empty once trimmed is classified without
\* failure, into one of the eleven categories and with a confidence between
\* 0.5 and 0.95.
C3_TotalAndInRange ==
    /\ (Answered("/classify") /\ Strip(request.message) # "") =>
          /\ response.status_code = 200
          /\ response.body.type \in DOMAIN COMMIT_TYPES
          /\ response.body.type \in Types
          /\ response.body.confidence >= 50
          /\ response.body.confidence <= 95
    /\ Answered("/classify/batch") =>
          \A i \in 1..Len(response.body.results) :
              LET r == response.body.results[i]
              IN Strip(r.message) # "" =>
                    /\ "error" \notin DOMAIN r
                    /\ r.type \in Types
                    /\ r.confidence >= 50
                    /\ r.confidence <= 95

\* C3 happens: a message without any keyword got the floor confidence.
C3_Witness ==
    /\ Answered("/classify")
    /\ Strip(request.message) # ""
    /\ response.status_code = 200
    /\ response.body.confidence = 50

\* C4: a batch is answered with one record per message, in the order of the
\* messages, and with their number as total; the record of a message that
\* fails carries the message and an error, and every other record is the
\* classification of its message.
C4_BatchPerItem ==
    Answered("/classify/batch") =>
        /\ response.status_code = 200
        /\ Len(response.body.results) = Len(request.messages)
        /\ response.body.total = Len(request.messages)
        /\ \A i \in 1..Len(request.messages) :
              LET msg == request.messages[i]
                  r == response.body.results[i]
              IN /\ r.message = msg
                 /\ Strip(msg) = "" =>
                        DOMAIN r = {"message", "error"}
                 /\ Strip(msg) # "" =>
                        /\ "error" \notin DOMAIN r
                        /\ AnswerOf(Classified(msg))
                               = [status_code |-> 200, body |-> r]

\* C4 happens: a batch whose first message fails and whose second does not
\* has been answered.
C4_Witness ==
    /\ Answered("/classify/batch")
    /\ Len(request.messages) = 2
    /\ Strip(request.messages[1]) = ""
    /\ "error" \in DOMAIN response.body.results[1]
    /\ "type" \in DOMAIN response.body.results[2]

\* The place of a suggestion in the fixed order of the five checks.
Rank(suggestion) ==
    IF suggestion.text = "Consider using conventional format: " THEN 1
    ELSE IF suggestion = TooShortSuggestion THEN 2
    ELSE IF suggestion = TooLongSuggestion THEN 3
    ELSE IF suggestion = ImperativeSuggestion THEN 4
    ELSE 5

\* The first word of the description starts, in lower case, with one of the
\* past-tense prefixes.
PastTense(description) ==
    /\ ~SplitIsEmpty(description)
    /\ \E k \in 1..Len(past_tense_indicators) :
          StartsWith(Lower(SplitFirst(description)), past_tense_indicators[k])

UpperStart(description) == description # "" /\ IsUpper(Char(description, 1))

\* C5: the suggestions of a result come in the fixed order reformat, too
\* short, too long, imperative mood, lowercase start; the last two are each
\* present exactly when their own check applies, so that a description that
\* starts with a past-tense word and an upper-case letter gets both, the
\* imperative-mood one first.
C5_ChecksIndependentAndOrdered ==
    \A r \in Results :
        /\ \A i, j \in 1..Len(r.suggestions) :
              i < j => Rank(r.suggestions[i]) < Rank(r.suggestions[j])
        /\ Has(r.suggestions, ImperativeSuggestion) <=> PastTense(r.description)
        /\ Has(r.suggestions, LowercaseSuggestion) <=> UpperStart(r.description)
        /\ (PastTense(r.description) /\ UpperStart(r.description)) =>
              \E i, j \in 1..Len(r.suggestions) :
                  /\ i < j
                  /\ r.suggestions[i] = ImperativeSuggestion
                  /\ r.suggestions[j] = LowercaseSuggestion

\* C5 happens: a description that starts with "Added" got both suggestions
\* after two earlier ones.
C5_Witness ==
    \E r \in Results :
        /\ PastTense(r.description)
        /\ UpperStart(r.description)
        /\ Len(r.suggestions) = 4
        /\ r.suggestions[3] = ImperativeSuggestion
        /\ r.suggestions[4] = LowercaseSuggestion

\* What C6 says of result r of the keyword pass, counts being the keyword
\* counts of its message.
FallbackResultIs(r, counts) ==
    /\ r.scope = None
    /\ r.description = Strip(r.message)
    /\ (\A p \in counts : p[2] = 0) =>
          (r.type = "chore" /\ r.confidence = 50)
    /\ (\E p \in counts : p[2] > 0) =>
          /\ CountOf(counts, r.type) > 0
          /\ r.confidence = (IF 60 + 10 * CountOf(counts, r.type) < 90
                             THEN 60 + 10 * CountOf(counts, r.type) ELSE 90)
          /\ r.confidence >= 60
          /\ r.confidence <= 90

\* C6: when no conventional pattern matches the trimmed message, the result
\* has no scope and the trimmed message as description; without any keyword
\* of any category it is chore at 0.5, otherwise its confidence is
\* min(0.6 + 0.1 k, 0.9) for the k keywords of its category, never 0.95.
C6_FallbackConfidence ==
    \A r \in Results :
        ConventionalTypes(r.message) = {} =>
            FallbackResultIs(r, KeywordCounts(r.message))

\* C6 happens: a keyword-classified message whose category has four keywords
\* in it got the capped confidence.
C6_Witness ==
    \E r \in Results :
        /\ ConventionalTypes(r.message) = {}
        /\ CountOf(KeywordCounts(r.message), r.type) = 4
        /\ r.confidence = 90

\* The categories that have the most in counts.
Most(counts) == {p[1] : p \in {p \in counts : \A q \in counts : q[2] <= p[2]}}

\* The category of S declared first.
Earliest(S) == CHOOSE t \in S : \A u \in S : IndexIn(t) <= IndexIn(u)

\* What the keyword pass orders the categories by: the keyword count up to
\* three, counts above three being as good as three (0.6 + 0.1 k is capped
\* at 0.9).
Capped(counts) == {<<p[1], IF p[2] < 3 THEN p[2] ELSE 3>> : p \in counts}

\* When some category has a keyword in the message, result r has the
\* category that is declared first among those that have the most keywords,
\* by count or by capped count.
WinnerIsBy(r, counts, order) ==
    (\E p \in counts : p[2] > 0) =>
        r.type = Earliest(Most(IF order = "count" THEN counts
                               ELSE Capped(counts)))

\* C7 as stated: the keyword pass returns the category with the highest
\* keyword count, the earliest declared among equals.
C7_HighestCountWins ==
    \A r \in Results :
        ConventionalTypes(r.message) = {} =>
            WinnerIsBy(r, KeywordCounts(r.message), "count")

\* C7 amended: the keyword pass returns the category with the highest
\* confidence min(0.6 + 0.1 k, 0.9), that is with the highest keyword count
\* capped at three, the earliest declared among equals.
C7_HighestCappedCountWins ==
    \A r \in Results :
        ConventionalTypes(r.message) = {} =>
            WinnerIsBy(r, KeywordCounts(r.message), "capped count")

\* C7 happens: a category with three keywords was returned although one
\* declared after it has four.
C7_Witness ==
    \E r \in Results :
        /\ ConventionalTypes(r.message) = {}
        /\ r.type = "docs"
        /\ CountOf(KeywordCounts(r.message), "docs") = 3
        /\ CountOf(KeywordCounts(r.message), "test") = 4

\* The positions of the trimmed message where a parenthesized group that is
\* not empty opens: a "(", later a ")", between them one or more characters
\* and no ")".
GroupOpenings(m) ==
    {i \in {k \in 1..Len(m) : Char(m, k) = "("} :
        \E j \in (i + 2)..Len(m) :
            /\ Char(m, j) = ")"
            /\ \A k \in (i + 1)..(j - 1) : Char(m, k) # ")"}

\* What the group opening at position i encloses.
GroupContent(m, i) ==
    LET j == CHOOSE j \in (i + 2)..Len(m) :
                /\ Char(m, j) = ")"
                /\ \A k \in (i + 1)..(j - 1) : Char(m, k) # ")"
    IN SubSeq(m, i + 1, j - 1)

\* C8: on a conventional match the scope is what the first parenthesized
\* non-empty group of the trimmed message encloses, wherever it is, and none
\* exactly when there is no such group.
C8_ScopeIsFirstGroup ==
    \A r \in Results :
        ConventionalTypes(r.message) # {} =>
            LET m == Strip(r.message)
                opens == GroupOpenings(m)
            IN /\ (opens = {}) <=> (r.scope = None)
               /\ opens # {} =>
                     /\ r.scope.some
                     /\ r.scope.value = GroupContent(m, LeastOf(opens))

\* C8 happens: the scope of a conventional message was taken from its
\* description, past an empty pair of parentheses.
C8_Witness ==
    \E r \in Results :
        /\ ConventionalTypes(r.message) # {}
        /\ r.scope = Some("ui")
        /\ Contains(r.description, "() (ui)")

\* C9: the too-short suggestion is given exactly when the trimmed message
\* has fewer than 10 characters and the too-long one exactly when it has more
\* than 100, whatever white space surrounds the submitted message.
C9_LengthOfTrimmedMessage ==
    \A r \in Results :
        /\ Has(r.suggestions, TooShortSuggestion)
              <=> Len(Strip(r.message)) < ShortLength
        /\ Has(r.suggestions, TooLongSuggestion)
              <=> Len(Strip(r.message)) > LongLength

\* C10: the reformat suggestion is given exactly when the result comes from
\* the keyword pass (confidence below 0.95), also for messages submitted
\* with white space around them.
C10_ReformatIffKeywordPass ==
    \A r \in Results : HasReformat(r.suggestions) <=> r.confidence < 95

====
